---- MODULE Spec2Model ----
(***************************************************************************)
(* RAG worker: one run of process_document_rag (pipeline/rag_pipeline.py)  *)
(* driving extract_and_process_pdf (services/pdf_extractor.py), which      *)
(* chunks the text with a sliding window and hands batches of chunks to    *)
(* handle_batch -> handle_batch_processing -> generate_batch_embeddings    *)
(* (services/embedder.py) -> store_batch_vectors                           *)
(* (services/vector_store.py).                                             *)
(*                                                                         *)
(* The collaborators (Supabase storage download, pypdf, the Jina endpoint, *)
(* the document_chunks table) are the environment: each call returns one   *)
(* of the outcomes the calling code distinguishes.                         *)
(***************************************************************************)
EXTENDS Integers, Sequences, FiniteSets, TLC

(* ----------------------------- bounds --------------------------------- *)
\* Largest window (options['chunkSize']) of the short-text runs.
MaxChunkSize == 4
\* Largest number of words of the short-text runs.
MaxTokens == 12
\* Largest page count of a document.
MaxPages == 2
\* Number of words of the long document run under the pipeline's own options.
LongDocWords == 600
\* Longest text given to clean_text on its own.
MaxTextLen == 5
\* Number of chunks after which a loop that cannot end (chunkSize - overlap <= 0)
\* is no longer followed.
MaxRunaway == 7

(* ------------------------ program constants --------------------------- *)
\* {'chunkSize': 250, 'overlap': 30} passed by process_document_rag.
PipelineChunkSize == 250
PipelineOverlap == 30
\* "if len(chunks) >= 5" in extract_and_process_pdf.
BatchSize == 5

(* ------------------------------ values -------------------------------- *)
NoError == "<None>"
\* Messages of the exceptions the code itself raises.
DownloadFailedMsg == "Download failed: No data returned"
BatchEmbeddingFailedMsg == "Batch embedding failed"
StoreFailedMsg == "Failed to store vectors"
IndexErrorMsg == "list index out of range"
\* str(error) of an exception raised by a collaborator library (storage
\* download, pypdf): any string, the empty one included.
CollaboratorMessages == {"collaborator error", ""}
\* What a failed embedding request looks like inside generate_batch_embeddings:
\* the exception built from a non-success status and the response text, the
\* KeyError of a body without 'data', a transport error of requests.post.
EmbedRawErrors == {"Jina API error: 500 - provider text", "'data'", "connection timed out"}
\* What a failed insert looks like inside store_batch_vectors: response.error
\* set, or the client raising.
StoreRawErrors == {"Failed to store vectors", "insert rejected: provider text"}

\* embedder.py 87-90: except Exception as error: print(...); raise Exception("Batch embedding failed")
EmbedderErrorRaw(raw) == raw
EmbedderError(raw) == BatchEmbeddingFailedMsg

\* vector_store.py 54-56: except Exception as error: print(...); raise Exception("Failed to store vectors")
StoreErrorRaw(raw) == raw
StoreError(raw) == StoreFailedMsg

\* The separator ' ' of ' '.join(...); words are numbered from 1.
Space == 0

Min(a, b) == IF a < b THEN a ELSE b
Max(a, b) == IF a > b THEN a ELSE b
\* ceil(a / b) for a >= 0, b > 0
Ceil(a, b) == (a + b - 1) \div b

\* cleaned_text.split() of a text of m words: the words in order.  Each word
\* is named by its position, so that two different slices differ.
Tokens(m) == [k \in 1..m |-> k]

\* The options the model runs extract_and_process_pdf with: the pipeline's
\* own, and short windows that exercise the same loop on short texts.
PipelineOptions == [chunkSize |-> PipelineChunkSize, overlap |-> PipelineOverlap]
ShortOptions == {o \in [chunkSize : 1..MaxChunkSize, overlap : 0..MaxChunkSize] :
                   o.overlap < o.chunkSize}

\* Options extract_and_process_pdf accepts as well (it checks nothing): an
\* overlap that is not smaller than the window.
MisconfiguredOptions == {o \in [chunkSize : 1..MaxChunkSize, overlap : 0..MaxChunkSize] :
                           o.overlap >= o.chunkSize}

(* ------------------------- pure functions ----------------------------- *)
\* A Python slice bound x on a list of length n: negative bounds count from
\* the end, and every bound is clipped to 0..n.
SliceBound(x, n) == IF x < 0 THEN Max(x + n, 0) ELSE Min(x, n)

\* words[i:i + chunk_size]
SliceShort(w, i, n) == SubSeq(w, SliceBound(i, Len(w)) + 1, SliceBound(i + n - 1, Len(w)))
Slice(w, i, n) == SubSeq(w, SliceBound(i, Len(w)) + 1, SliceBound(i + n, Len(w)))

\* ' '.join(s)
Join(s) == [k \in 1..(IF Len(s) = 0 THEN 0 ELSE 2 * Len(s) - 1) |->
              IF k % 2 = 1 THEN s[(k + 1) \div 2] ELSE Space]

\* PageChunk(page_number=0, chunk_index=chunk_index, content=content)
PageChunk(ci, content) == [page_number |-> 0, chunk_index |-> ci, content |-> content]

\* i += (chunk_size - overlap)
StepNoOverlap(o) == o.chunkSize
StepBackwards(o) == o.overlap - o.chunkSize
Step(o) == o.chunkSize - o.overlap

\* while i < len(words)
LoopCondShort(i, w, o) == i + o.overlap < Len(w)
LoopCond(i, w, o) == i < Len(w)

\* if len(chunks) >= 5
BatchReadyLate(c) == Len(c) > BatchSize
BatchReady(c) == Len(c) >= BatchSize

\* if chunks:   (after the loop)
NoRemaining(c) == FALSE
HasRemaining(c) == c # <<>>

\* if not response:   (b"" and None are both falsy)
NoDataNoneOnly(response) == response = "none"
NoData(response) == response \in {"none", "empty"}

\* texts = [chunk.content for chunk in chunks]
TextsReversed(c) == [k \in 1..Len(c) |-> c[Len(c) + 1 - k].content]
Texts(c) == [k \in 1..Len(c) |-> c[k].content]

\* The vector the provider returns at position k of the response to request r.
Vector(r, k) == <<r, k>>

\* PipelineResult(success=False, page_count=0, total_chunks=0, error=str(error))
FailureResultNoError(msg) == [success |-> FALSE, page_count |-> 0, total_chunks |-> 0, error |-> NoError]
FailureResult(msg) == [success |-> FALSE, page_count |-> 0, total_chunks |-> 0, error |-> msg]

\* PipelineResult(success=True, page_count=result['pageCount'], total_chunks=total_chunks_processed)
SuccessResult(pages, total) == [success |-> TRUE, page_count |-> pages, total_chunks |-> total, error |-> NoError]

NoResult == [success |-> FALSE, page_count |-> -1, total_chunks |-> -1, error |-> NoError]

(* ------------------------------ state --------------------------------- *)
VARIABLES
  pc,                      \* position of the run
  options,                 \* options of extract_and_process_pdf
  docPages, docTokens,     \* the stored PDF: its pages and the words of its text
  response,                \* what the download returned: "unset", "pdf", "empty" (b""), "none", "raised"
  buffer,                  \* process_document_rag's buffer: "unset", "pdf", "empty", "deleted"
  total_pages, words, chunks, chunk_index, i,      \* locals of extract_and_process_pdf
  ret,                     \* call site of on_batch_ready: "loop" (line 97), "tail" (line 107)
  texts, embeddings, vector_chunks,                \* locals of handle_batch_processing
  total_chunks_processed,  \* nonlocal counter of handle_batch
  exc,                     \* message of the exception in flight
  result,                  \* the PipelineResult returned
  table,                   \* rows of document_chunks inserted by this run, in order
  \* history of the run
  emitted,                 \* every PageChunk constructed, in order
  batches,                 \* the argument of every on_batch_ready call, in order
  completed,               \* number of on_batch_ready calls that returned or raised
  embedRequests,           \* the input of every embedding request, in order
  insertCalls,             \* the rows of every bulk insert call, in order
  extractCalls,            \* number of PdfReader constructions
  mismatched,              \* batches (by number) answered with a wrong vector count
  failure,                 \* the stage that failed and the message it raised
  results,                 \* number of PipelineResults returned
  extractor_buffer,        \* extract_and_process_pdf's parameter buffer: "unset", "pdf", "deleted"
  \* the /process handler around the run (main.py)
  hpc,                     \* position of process_document: "start", "pipeline", "finished"
  status,                  \* the status field of the document record
  reply,                   \* the ProcessResponse returned
  \* a second run of process_document_rag, for another document
  cur,                     \* the run the variables above belong to
  parked,                  \* the suspended run's variables
  \* clean_text on its own
  full_text, cleaned_text, cleaned_twice

vars == <<pc, options, docPages, docTokens, response, buffer, total_pages, words, chunks,
          chunk_index, i, ret, texts, embeddings, vector_chunks,
          total_chunks_processed, exc, result, table, emitted, batches,
          completed, embedRequests, insertCalls, extractCalls, mismatched,
          failure, results, extractor_buffer, hpc, status, reply, cur, parked,
          full_text, cleaned_text, cleaned_twice>>

\* The identifiers each run of process_document_rag is called with.
RunIds == [r \in {1, 2} |->
             IF r = 1 THEN [document_id |-> "doc-1", user_id |-> "user-1", chat_id |-> "chat-1"]
                      ELSE [document_id |-> "doc-2", user_id |-> "user-2", chat_id |-> "chat-2"]]
document_id == RunIds[cur].document_id
user_id == RunIds[cur].user_id
chat_id == RunIds[cur].chat_id

\* [VectorChunk(..., embedding=embeddings[idx].embedding) for idx, chunk in enumerate(chunks)]
\* (defined when Len(e) >= Len(c); a shorter e raises IndexError)
VectorChunksFirstVector(c, e) ==
  [k \in 1..Len(c) |->
     [document_id |-> document_id, user_id |-> user_id, chat_id |-> chat_id,
      page_number |-> c[k].page_number, chunk_index |-> c[k].chunk_index,
      content |-> c[k].content, embedding |-> e[1]]]
VectorChunks(c, e) ==
  [k \in 1..Len(c) |->
     [document_id |-> document_id, user_id |-> user_id, chat_id |-> chat_id,
      page_number |-> c[k].page_number, chunk_index |-> c[k].chunk_index,
      content |-> c[k].content, embedding |-> e[k]]]

\* total_chunks_processed += len(chunks)
CountBatchByOne(total, c) == total + 1
\* (a counter kept in a module global would count every run's rows)
CountBatchShared(total, c) == Len(table) + Len(c)
CountBatchFull(total, c) == total + BatchSize
CountBatch(total, c) == total + Len(c)

docVars == <<options, docPages, docTokens>>
pipelineVars == <<response, buffer>>
outerVars == <<hpc, status, reply, cur, parked, full_text, cleaned_text, cleaned_twice>>
extractorVars == <<extractor_buffer, total_pages, words, chunks, chunk_index, i, ret>>
handlerVars == <<texts, embeddings, vector_chunks>>
historyVars == <<emitted, batches, completed, embedRequests, insertCalls,
                 extractCalls, mismatched, failure>>

NoFailure == [stage |-> "none", msg |-> NoError]

\* The state of a run when process_document_rag is entered.
InitRun ==
  /\ pc = "download"
  /\ response = "unset" /\ buffer = "unset" /\ extractor_buffer = "unset"
  /\ total_pages = 0 /\ words = <<>> /\ chunks = <<>> /\ chunk_index = 0 /\ i = 0
  /\ ret = "none"
  /\ texts = <<>> /\ embeddings = <<>> /\ vector_chunks = <<>>
  /\ total_chunks_processed = 0
  /\ exc = NoError
  /\ result = NoResult
  /\ table = <<>>
  /\ emitted = <<>> /\ batches = <<>> /\ completed = 0
  /\ embedRequests = <<>> /\ insertCalls = <<>> /\ extractCalls = 0
  /\ mismatched = {}
  /\ failure = NoFailure
  /\ results = 0

NoReply == [success |-> FALSE, pageCount |-> -1, totalChunks |-> -1, error |-> NoError]

\* Nothing is parked and no text is being cleaned.
InitOuter ==
  /\ reply = NoReply
  /\ cur = 1 /\ parked = <<>>
  /\ full_text = <<>> /\ cleaned_text = <<>> /\ cleaned_twice = <<>>

\* One run of process_document_rag, entered by process_document after it has
\* marked the document as processing.
Init ==
  /\ \/ /\ options \in ShortOptions
        /\ docPages \in 0..MaxPages
        /\ docTokens \in 0..MaxTokens
     \/ /\ options = PipelineOptions
        /\ docPages \in 0..MaxPages
        /\ docTokens \in {0, LongDocWords}
  \* a PDF without pages has no text
  /\ docPages = 0 => docTokens = 0
  /\ InitRun
  /\ hpc = "pipeline" /\ status = "processing"
  /\ InitOuter

\* A call of extract_and_process_pdf with any options, misconfigured ones
\* included.
InitAnyOptions ==
  /\ options \in ShortOptions \cup MisconfiguredOptions
  /\ docPages \in 0..MaxPages
  /\ docTokens \in 0..MaxTokens
  /\ docPages = 0 => docTokens = 0
  /\ InitRun
  /\ hpc = "pipeline" /\ status = "processing"
  /\ InitOuter

(* ----------------------------- actions -------------------------------- *)
\* rag_pipeline.py 55-63: download, "if not response: raise", buffer = response
Download ==
  /\ pc = "download" /\ hpc = "pipeline"
  /\ \/ \E r \in {"pdf", "empty", "none"} :
          /\ response' = r
          /\ IF NoData(r)
             THEN /\ exc' = DownloadFailedMsg
                  /\ failure' = [stage |-> "download_empty", msg |-> DownloadFailedMsg]
                  /\ pc' = "pipeline_except"
                  /\ UNCHANGED buffer
             ELSE /\ buffer' = r
                  /\ pc' = "extract"
                  /\ UNCHANGED <<exc, failure>>
     \/ \E msg \in CollaboratorMessages :      \* the download call raises
          /\ response' = "raised"
          /\ exc' = msg
          /\ failure' = [stage |-> "download", msg |-> msg]
          /\ pc' = "pipeline_except"
          /\ UNCHANGED buffer
  /\ UNCHANGED <<docVars, outerVars, extractorVars, handlerVars, total_chunks_processed,
                 result, table, emitted, batches, completed, embedRequests,
                 insertCalls, extractCalls, mismatched, results>>

\* pdf_extractor.py 54-83: PdfReader, page texts, clean_text, split, loop set-up
Extract ==
  /\ pc = "extract"
  /\ extractCalls' = extractCalls + 1
  /\ \/ /\ buffer = "pdf"
        /\ extractor_buffer' = "deleted"       \* del buffer (line 66)
        /\ total_pages' = docPages
        /\ words' = Tokens(docTokens)
        /\ chunks' = <<>> /\ chunk_index' = 0 /\ i' = 0
        /\ pc' = "loop"
        /\ UNCHANGED <<exc, failure>>
     \/ \E msg \in CollaboratorMessages :      \* pypdf raises
          /\ exc' = msg
          /\ failure' = [stage |-> "extract", msg |-> msg]
          /\ pc' = "extractor_except"
          /\ extractor_buffer' = buffer
          /\ UNCHANGED <<total_pages, words, chunks, chunk_index, i>>
  /\ UNCHANGED <<docVars, outerVars, pipelineVars, ret, handlerVars, total_chunks_processed,
                 result, table, emitted, batches, completed, embedRequests,
                 insertCalls, mismatched, results>>

\* The loop resumes only after "await on_batch_ready(chunks)" has returned.
LoopEnabledNoAwait == pc \in {"loop", "embedding", "storing"}
LoopEnabled == pc = "loop"

\* pdf_extractor.py 84-103: one iteration up to the batch test
MakeChunk ==
  /\ LoopEnabled
  /\ LoopCond(i, words, options)
  /\ Step(options) > 0 \/ chunk_index < MaxRunaway
  /\ LET c == PageChunk(chunk_index, Join(Slice(words, i, options.chunkSize)))
     IN /\ chunks' = Append(chunks, c)
        /\ emitted' = Append(emitted, c)
  /\ chunk_index' = chunk_index + 1
  /\ IF BatchReady(chunks')
     THEN /\ pc' = "on_batch_ready" /\ ret' = "loop" /\ UNCHANGED i
     ELSE /\ i' = i + Step(options) /\ pc' = "loop" /\ UNCHANGED ret
  /\ UNCHANGED <<docVars, outerVars, pipelineVars, extractor_buffer,
                 total_pages, words, handlerVars,
                 total_chunks_processed, exc, result, table, batches, completed,
                 embedRequests, insertCalls, extractCalls, mismatched, failure,
                 results>>

\* pdf_extractor.py 84, 105-107: the loop ends; the remaining chunks, if any,
\* go to on_batch_ready
LoopExit ==
  /\ pc = "loop"
  /\ ~LoopCond(i, words, options)
  /\ IF HasRemaining(chunks)
     THEN pc' = "on_batch_ready" /\ ret' = "tail"
     ELSE pc' = "return" /\ UNCHANGED ret
  /\ UNCHANGED <<docVars, outerVars, pipelineVars, extractor_buffer,
                 total_pages, words, chunks, chunk_index, i,
                 handlerVars, total_chunks_processed, exc, result, table,
                 historyVars, results>>

\* rag_pipeline.py 67-72, 132-135 and embedder.py 57-74: handle_batch calls
\* handle_batch_processing, which extracts the texts and posts the one
\* embedding request of the batch.  (The batch is never empty here, so the
\* "if not texts: return []" shortcut is not taken.)
HandleBatch ==
  /\ pc = "on_batch_ready"
  /\ batches' = Append(batches, chunks)
  /\ texts' = Texts(chunks)
  /\ embedRequests' = Append(embedRequests, texts')
  /\ pc' = "embedding"
  /\ UNCHANGED <<docVars, outerVars, pipelineVars, extractorVars, embeddings, vector_chunks,
                 total_chunks_processed, exc, result, table, emitted, completed,
                 insertCalls, extractCalls, mismatched, failure, results>>

\* The handler raised: handle_batch_processing re-raises (rag_pipeline.py
\* 164-166), handle_batch does not catch, and the exception arrives at the
\* "await on_batch_ready(chunks)" of extract_and_process_pdf.
BatchRaises(stage, msg) ==
  /\ exc' = msg
  /\ failure' = [stage |-> stage, msg |-> msg]
  /\ completed' = completed + 1
  /\ pc' = "extractor_except"

\* embedder.py 76-90, rag_pipeline.py 137-152, vector_store.py 29-48: the
\* provider answers; the embeddings are zipped to the chunks by position and
\* the bulk insert is issued.
EmbedResponse ==
  /\ pc = "embedding"
  /\ \/ \* non-success status, malformed body or transport error
        /\ \E raw \in EmbedRawErrors : BatchRaises("embed", EmbedderError(raw))
        /\ UNCHANGED <<embeddings, vector_chunks, insertCalls, mismatched>>
     \/ \* a well-formed response carrying n vectors
        \E n \in {Len(texts) - 1, Len(texts), Len(texts) + 1} :
          /\ embeddings' = [k \in 1..n |-> Vector(Len(embedRequests), k)]
          /\ mismatched' = IF n = Len(texts) THEN mismatched
                           ELSE mismatched \cup {Len(batches)}
          /\ IF n < Len(chunks)
             THEN \* embeddings[idx] raises IndexError
                  /\ BatchRaises("zip", IndexErrorMsg)
                  /\ UNCHANGED <<vector_chunks, insertCalls>>
             ELSE /\ vector_chunks' = VectorChunks(chunks, embeddings')
                  /\ insertCalls' = Append(insertCalls, vector_chunks')
                  /\ pc' = "storing"
                  /\ UNCHANGED <<exc, failure, completed>>
  /\ UNCHANGED <<docVars, outerVars, pipelineVars, extractorVars, texts, total_chunks_processed,
                 result, table, emitted, batches, embedRequests, extractCalls,
                 results>>

\* vector_store.py 48-56, rag_pipeline.py 154-162 and 74: the insert answers;
\* on success the handler clears its lists and handle_batch counts the batch.
StoreResponse ==
  /\ pc = "storing"
  /\ \/ /\ table' = table \o vector_chunks
        /\ texts' = <<>> /\ vector_chunks' = <<>> /\ embeddings' = <<>>
        /\ total_chunks_processed' = CountBatch(total_chunks_processed, chunks)
        /\ completed' = completed + 1
        /\ pc' = "handled"
        /\ UNCHANGED <<exc, failure>>
     \/ \* response.error is set, or the insert raises: nothing is written
        /\ \E raw \in StoreRawErrors : BatchRaises("store", StoreError(raw))
        /\ UNCHANGED <<table, handlerVars, total_chunks_processed>>
  /\ UNCHANGED <<docVars, outerVars, pipelineVars, extractorVars, result, emitted, batches,
                 embedRequests, insertCalls, extractCalls, mismatched, results>>

\* pdf_extractor.py 98-103 and 108: on_batch_ready returned; the list is
\* cleared and the loop goes on (or, after the last batch, the function ends).
BatchReturned ==
  /\ pc = "handled"
  /\ chunks' = <<>>
  /\ IF ret = "loop"
     THEN i' = i + Step(options) /\ pc' = "loop"
     ELSE pc' = "return" /\ UNCHANGED i
  /\ UNCHANGED <<docVars, outerVars, pipelineVars, extractor_buffer,
                 total_pages, words, chunk_index, ret,
                 handlerVars, total_chunks_processed, exc, result, table,
                 historyVars, results>>

\* pdf_extractor.py 110-114: del words; return {'pageCount': total_pages}
ExtractorReturn ==
  /\ pc = "return"
  /\ words' = <<>>
  /\ pc' = "returned"
  /\ UNCHANGED <<docVars, outerVars, pipelineVars, extractor_buffer,
                 total_pages, chunks, chunk_index, i, ret,
                 handlerVars, total_chunks_processed, exc, result, table,
                 historyVars, results>>

\* pdf_extractor.py 116-118: "except Exception as e: print(...); raise"
SwallowBatchFailure ==
  IF ret = "loop" /\ failure.stage \in {"embed", "zip", "store"}
  THEN /\ pc' = "loop" /\ chunks' = <<>> /\ i' = i + Step(options)
       /\ exc' = NoError
       /\ UNCHANGED <<docVars, outerVars, pipelineVars, extractor_buffer,
                 total_pages, words, chunk_index, ret,
                      handlerVars, total_chunks_processed, result, table,
                      historyVars, results>>
  ELSE /\ pc' = "pipeline_except"
       /\ UNCHANGED <<docVars, outerVars, pipelineVars, extractorVars, handlerVars,
                      total_chunks_processed, exc, result, table, historyVars,
                      results>>
ReraiseWithRollback ==
  /\ pc' = "pipeline_except"
  /\ table' = <<>>
  /\ UNCHANGED <<docVars, outerVars, pipelineVars, extractorVars, handlerVars,
                 total_chunks_processed, exc, result, historyVars, results>>
Reraise ==
  /\ pc' = "pipeline_except"
  /\ UNCHANGED <<docVars, outerVars, pipelineVars, extractorVars, handlerVars,
                 total_chunks_processed, exc, result, table, historyVars,
                 results>>

ExtractorExcept ==
  /\ pc = "extractor_except"
  /\ Reraise

\* rag_pipeline.py 82-93: del buffer; return PipelineResult(success=True, ...)
PipelineReturn ==
  /\ pc = "returned"
  /\ buffer' = "deleted"
  /\ UNCHANGED response
  /\ result' = SuccessResult(total_pages, total_chunks_processed)
  /\ results' = results + 1
  /\ pc' = "done"
  /\ UNCHANGED <<docVars, outerVars, extractorVars, handlerVars, total_chunks_processed,
                 exc, table, historyVars>>

\* rag_pipeline.py 95-102: except Exception as error: return PipelineResult(success=False, ...)
PipelineExcept ==
  /\ pc = "pipeline_except"
  /\ result' = FailureResult(exc)
  /\ results' = results + 1
  /\ pc' = "done"
  /\ UNCHANGED <<docVars, outerVars, pipelineVars, extractorVars, handlerVars,
                 total_chunks_processed, exc, table, historyVars>>

Next ==
  \/ Download
  \/ Extract
  \/ MakeChunk
  \/ LoopExit
  \/ HandleBatch
  \/ EmbedResponse
  \/ StoreResponse
  \/ BatchReturned
  \/ ExtractorReturn
  \/ ExtractorExcept
  \/ PipelineReturn
  \/ PipelineExcept

Spec == Init /\ [][Next]_vars

SpecAnyOptions == InitAnyOptions /\ [][Next]_vars

\* The run under the assumption that every collaborator call eventually
\* returns or raises and that the event loop keeps running the coroutine: a
\* step that is possible is eventually taken.
FairSpec == Spec /\ WF_vars(Next)

\* Everything process_document_rag and its callees own or write.
runVars == <<pc, docVars, pipelineVars, extractorVars, handlerVars,
             total_chunks_processed, exc, result, table, historyVars, results>>

(* ------------------- clean_text (pdf_extractor.py) -------------------- *)
\* A text is a sequence of characters: the four whitespace characters and a
\* letter.
Chars == {" ", "\t", "\n", "\r", "a"}
\* \s
IsSpace(c) == c \in {" ", "\t", "\n", "\r"}
\* [^\S\r\n]: whitespace other than carriage return and newline
IsBlank(c) == IsSpace(c) /\ c \notin {"\r", "\n"}

RECURSIVE SkipBlanks(_)
\* The text after its leading run of blanks (what one match of [^\S\r\n]+ leaves).
SkipBlanks(t) == IF t # <<>> /\ IsBlank(Head(t)) THEN SkipBlanks(Tail(t)) ELSE t

RECURSIVE SubBlanks(_)
\* re.sub(r'[^\S\r\n]+', ' ', text)
SubBlanks(t) ==
  IF t = <<>> THEN <<>>
  ELSE IF IsBlank(Head(t)) THEN <<" ">> \o SubBlanks(SkipBlanks(t))
  ELSE <<Head(t)>> \o SubBlanks(Tail(t))

\* The last position of the whitespace run that follows position p.
SpaceRunEnd(t, p) ==
  CHOOSE q \in p..Len(t) :
    /\ \A k \in (p + 1)..q : IsSpace(t[k])
    /\ q = Len(t) \/ ~IsSpace(t[q + 1])

SetMin(S) == CHOOSE x \in S : \A y \in S : x <= y
SetMax(S) == CHOOSE x \in S : \A y \in S : x >= y

\* Where the match of \n\s*\n that starts at a newline ends, given the set E
\* of newlines in the whitespace run after it: \s* is greedy, so at the last.
MatchEndLazy(E) == SetMin(E)
MatchEnd(E) == SetMax(E)

RECURSIVE SubBlankLines(_, _)
\* re.sub(r'\n\s*\n', '\n', text), scanning from position p: leftmost
\* matches, not overlapping
SubBlankLines(t, p) ==
  IF p > Len(t) THEN <<>>
  ELSE LET E == {e \in (p + 1)..SpaceRunEnd(t, p) : t[e] = "\n"}
       IN IF t[p] = "\n" /\ E # {}
          THEN <<"\n">> \o SubBlankLines(t, MatchEnd(E) + 1)
          ELSE <<t[p]>> \o SubBlankLines(t, p + 1)

\* text.strip()
Strip(t) ==
  LET Kept == {k \in 1..Len(t) : ~IsSpace(t[k])}
  IN IF Kept = {} THEN <<>> ELSE SubSeq(t, SetMin(Kept), SetMax(Kept))

\* clean_text(text)
clean_text(t) == Strip(SubBlankLines(SubBlanks(t), 1))

RECURSIVE TextsUpTo(_)
\* Every text of at most n characters.
TextsUpTo(n) ==
  IF n = 0 THEN {<<>>}
  ELSE LET S == TextsUpTo(n - 1)
       IN S \cup {Append(t, c) : t \in S, c \in Chars}

\* clean_text is about to be called on some text.
InitClean ==
  /\ options = PipelineOptions /\ docPages = 0 /\ docTokens = 0
  /\ InitRun
  /\ hpc = "clean" /\ status = "processing"
  /\ reply = NoReply
  /\ cur = 1 /\ parked = <<>>
  /\ full_text \in TextsUpTo(MaxTextLen)
  /\ cleaned_text = <<>> /\ cleaned_twice = <<>>

\* cleaned_text = clean_text(full_text)   (pdf_extractor.py 71)
CleanText ==
  /\ hpc = "clean"
  /\ cleaned_text' = clean_text(full_text)
  /\ hpc' = "cleaned"
  /\ UNCHANGED <<runVars, status, reply, cur, parked, full_text, cleaned_twice>>

\* clean_text applied to its own result
CleanAgain ==
  /\ hpc = "cleaned"
  /\ cleaned_twice' = clean_text(cleaned_text)
  /\ hpc' = "recleaned"
  /\ UNCHANGED <<runVars, status, reply, cur, parked, full_text, cleaned_text>>

NextClean ==
  \/ CleanText
  \/ CleanAgain

SpecClean == InitClean /\ [][NextClean]_vars

(* ------------------- two runs, for two documents --------------------- *)
\* The variables of one run: everything but the document_chunks table, which
\* the runs share.
RunState ==
  [pc |-> pc, options |-> options, docPages |-> docPages, docTokens |-> docTokens,
   response |-> response, buffer |-> buffer, extractor_buffer |-> extractor_buffer,
   total_pages |-> total_pages, words |-> words, chunks |-> chunks,
   chunk_index |-> chunk_index, i |-> i, ret |-> ret, texts |-> texts,
   embeddings |-> embeddings, vector_chunks |-> vector_chunks,
   total_chunks_processed |-> total_chunks_processed, exc |-> exc,
   result |-> result, emitted |-> emitted, batches |-> batches,
   completed |-> completed, embedRequests |-> embedRequests,
   insertCalls |-> insertCalls, extractCalls |-> extractCalls,
   mismatched |-> mismatched, failure |-> failure, results |-> results]

\* The documents of the two-run model: one chunk, and one more than a batch.
TwoRunDocs == {[options |-> [chunkSize |-> 2, overlap |-> 1], docPages |-> 1, docTokens |-> n] :
                 n \in {1, BatchSize + 1}}

\* A run that has not started, for document d.
FreshRun(d) ==
  [pc |-> "download", options |-> d.options, docPages |-> d.docPages,
   docTokens |-> d.docTokens, response |-> "unset", buffer |-> "unset",
   extractor_buffer |-> "unset", total_pages |-> 0, words |-> <<>>,
   chunks |-> <<>>, chunk_index |-> 0, i |-> 0, ret |-> "none", texts |-> <<>>,
   embeddings |-> <<>>, vector_chunks |-> <<>>, total_chunks_processed |-> 0,
   exc |-> NoError, result |-> NoResult, emitted |-> <<>>, batches |-> <<>>,
   completed |-> 0, embedRequests |-> <<>>, insertCalls |-> <<>>,
   extractCalls |-> 0, mismatched |-> {}, failure |-> NoFailure, results |-> 0]

\* Two /process requests have reached their call of process_document_rag.
InitTwoRuns ==
  /\ \E d \in TwoRunDocs :
        options = d.options /\ docPages = d.docPages /\ docTokens = d.docTokens
  /\ InitRun
  /\ hpc = "pipeline" /\ status = "processing"
  /\ reply = NoReply
  /\ cur = 1
  /\ parked \in {FreshRun(d) : d \in TwoRunDocs}
  /\ full_text = <<>> /\ cleaned_text = <<>> /\ cleaned_twice = <<>>

\* The points where a run waits for a collaborator (or has not started, or
\* has returned) and the event loop may go on with the other run.
SwitchPoints == {"download", "extract", "embedding", "storing", "done"}

\* The event loop turns to the other run.
Switch ==
  /\ parked # <<>>
  /\ pc \in SwitchPoints
  /\ cur' = 3 - cur
  /\ parked' = RunState
  /\ pc' = parked.pc /\ options' = parked.options /\ docPages' = parked.docPages
  /\ docTokens' = parked.docTokens /\ response' = parked.response
  /\ buffer' = parked.buffer /\ extractor_buffer' = parked.extractor_buffer
  /\ total_pages' = parked.total_pages /\ words' = parked.words
  /\ chunks' = parked.chunks /\ chunk_index' = parked.chunk_index /\ i' = parked.i
  /\ ret' = parked.ret /\ texts' = parked.texts /\ embeddings' = parked.embeddings
  /\ vector_chunks' = parked.vector_chunks
  /\ total_chunks_processed' = parked.total_chunks_processed
  /\ exc' = parked.exc /\ result' = parked.result /\ emitted' = parked.emitted
  /\ batches' = parked.batches /\ completed' = parked.completed
  /\ embedRequests' = parked.embedRequests /\ insertCalls' = parked.insertCalls
  /\ extractCalls' = parked.extractCalls /\ mismatched' = parked.mismatched
  /\ failure' = parked.failure /\ results' = parked.results
  /\ UNCHANGED <<table, hpc, status, reply, full_text, cleaned_text, cleaned_twice>>

NextTwoRuns ==
  \/ Next
  \/ Switch

SpecTwoRuns == InitTwoRuns /\ [][NextTwoRuns]_vars

(* ------------------- the /process handler (main.py) ------------------- *)
ProcessingFailedMsg == "RAG processing failed"

\* document.py 60-72: find_by_id_and_update sets the fields when the record is
\* found and the store answers; when it is not found, or the store raises, the
\* exception is caught, None is returned and nothing is written.  The handler
\* ignores the return value.
StatusWritten(applied, new) == IF applied THEN new ELSE status

\* raise Exception(result.error or "RAG processing failed"); error_msg = str(e)
ErrorMsg(r) == IF r.error \in {NoError, ""} THEN ProcessingFailedMsg ELSE r.error

\* A /process request for a document that was uploaded.
InitHandler ==
  /\ \/ /\ options \in ShortOptions
        /\ docPages \in 0..MaxPages
        /\ docTokens \in 0..MaxTokens
     \/ /\ options = PipelineOptions
        /\ docPages \in 0..MaxPages
        /\ docTokens \in {0, LongDocWords}
  /\ docPages = 0 => docTokens = 0
  /\ InitRun
  /\ hpc = "start" /\ status = "uploaded"
  /\ InitOuter

\* main.py 132-145: mark the document as processing, then call the pipeline
MarkProcessing ==
  /\ hpc = "start"
  /\ \E applied \in BOOLEAN : status' = StatusWritten(applied, "processing")
  /\ hpc' = "pipeline"
  /\ UNCHANGED <<runVars, reply, cur, parked, full_text, cleaned_text, cleaned_twice>>

\* main.py 147-166: the pipeline succeeded: status processed, success response
ReportProcessed ==
  /\ hpc = "pipeline" /\ pc = "done" /\ result.success
  /\ \E applied \in BOOLEAN : status' = StatusWritten(applied, "processed")
  /\ reply' = [success |-> TRUE, pageCount |-> result.page_count,
               totalChunks |-> result.total_chunks, error |-> NoError]
  /\ hpc' = "finished"
  /\ UNCHANGED <<runVars, cur, parked, full_text, cleaned_text, cleaned_twice>>

\* main.py 148-149 and 168-184: the pipeline failed: the handler raises into
\* its own except clause, sets status failed and returns the error response
ReportFailed ==
  /\ hpc = "pipeline" /\ pc = "done" /\ ~result.success
  /\ \E applied \in BOOLEAN : status' = StatusWritten(applied, "failed")
  /\ reply' = [success |-> FALSE, pageCount |-> 0, totalChunks |-> 0,
               error |-> ErrorMsg(result)]
  /\ hpc' = "finished"
  /\ UNCHANGED <<runVars, cur, parked, full_text, cleaned_text, cleaned_twice>>

NextHandler ==
  \/ Next
  \/ MarkProcessing
  \/ ReportProcessed
  \/ ReportFailed

SpecHandler == InitHandler /\ [][NextHandler]_vars

TypeOK ==
  /\ pc \in {"download", "extract", "loop", "on_batch_ready", "embedding",
             "storing", "handled", "return", "returned", "extractor_except",
             "pipeline_except", "done"}
  /\ ret \in {"none", "loop", "tail"}
  /\ Len(chunks) <= BatchSize
  /\ results \in {0, 1}

(* ------------------------ vocabulary of the claims -------------------- *)
RECURSIVE Flatten(_)
\* The concatenation of a sequence of sequences.
Flatten(ss) == IF ss = <<>> THEN <<>> ELSE Head(ss) \o Flatten(Tail(ss))

\* The words of a content string: content.split(' ').
WordsOf(content) == SelectSeq(content, LAMBDA x : x # Space)

\* on_batch_ready calls that have started and neither returned nor raised.
InFlight == Len(batches) - completed

HandlerStages == {"embed", "zip", "store"}
HandlerFailed == failure.stage \in HandlerStages
Succeeded == pc = "done" /\ result.success
BatchSizes == [b \in 1..Len(batches) |-> Len(batches[b])]
\* The loop of extract_and_process_pdf has run to its end.
ChunkingFinished == pc \in {"return", "returned"} \/ Succeeded

(* ------------------------------- C1 ----------------------------------- *)
\* C1: batches are handled strictly one at a time: at most one
\* on_batch_ready call is in flight, and while one is in flight no chunk
\* beyond the batches delivered so far has been constructed.
C1_OneBatchAtATime ==
  /\ InFlight \in {0, 1}
  /\ InFlight = 1 => emitted = Flatten(batches)
  /\ Len(embedRequests) <= Len(batches) /\ Len(insertCalls) <= Len(embedRequests)

\* The second batch is being stored after the first one completed.
C1_Witness == pc = "storing" /\ Len(batches) = 2 /\ completed = 1

(* ------------------------------- C2 ----------------------------------- *)
\* C2: every on_batch_ready call receives between 1 and BatchSize chunks,
\* and a run in which no call fails makes ceil(T / BatchSize) calls for a
\* document of T chunks.
C2_BatchBoundsAndCount ==
  /\ \A b \in 1..Len(batches) : Len(batches[b]) \in 1..BatchSize
  /\ (pc = "done" /\ ~HandlerFailed) =>
        Len(batches) = Ceil(Len(emitted), BatchSize)

\* A successful run of 12 chunks made 3 calls.
C2_Witness == Succeeded /\ Len(emitted) = 12 /\ Len(batches) = 3

(* ------------------------------- C3 ----------------------------------- *)
\* C3: the batches delivered, concatenated in call order, are the emitted
\* chunks in order (all of them once the run succeeded); every batch but the
\* last one delivered is full, and the last one of a finished run carries
\* the remainder.
C3_BatchesPartitionChunks ==
  /\ Len(Flatten(batches)) <= Len(emitted)
  /\ Flatten(batches) = SubSeq(emitted, 1, Len(Flatten(batches)))
  /\ \A b \in 1..(Len(batches) - 1) : Len(batches[b]) = BatchSize
  /\ Succeeded =>
       /\ Flatten(batches) = emitted
       /\ \A j \in 1..Len(emitted) : emitted[j].chunk_index = j - 1
       /\ Len(emitted) > 0 =>
            Len(batches[Len(batches)]) = Len(emitted) - BatchSize * (Len(batches) - 1)

\* 12 chunks were delivered as batches of 5, 5 and 2.
C3_Witness == Succeeded /\ Len(emitted) = 12 /\ BatchSizes = <<5, 5, 2>>

(* ------------------------------- C4 ----------------------------------- *)
\* C4: once the handler of a batch has failed, the failure leaves the batch
\* driver, no further chunk is constructed, no further batch is delivered, no
\* further embedding request or insert is issued, nothing more is written,
\* and the run can only end with success = False.
C4_FailFast ==
  [][HandlerFailed =>
       /\ pc \in {"extractor_except", "pipeline_except", "done"}
       /\ pc' \in {"pipeline_except", "done"}
       /\ emitted' = emitted /\ batches' = batches
       /\ embedRequests' = embedRequests /\ insertCalls' = insertCalls
       /\ table' = table
       /\ pc' = "done" => ~result'.success]_vars

\* The storage write of the first batch failed with more text left to chunk,
\* and the run has ended.
C4_Witness ==
  /\ pc = "done" /\ failure.stage = "store" /\ ret = "loop"
  /\ Len(batches) = 1 /\ i + Step(options) < Len(words)
  /\ ~result.success

(* ------------------------------- C5 ----------------------------------- *)
OwnFailures == {"download_empty", "embed", "zip", "store"}

\* C5 (as claimed): exactly one PipelineResult per run; success = True only
\* if no stage failed, otherwise success = False with a non-empty error.
C5_Original ==
  /\ results <= 1
  /\ pc = "done" =>
       /\ results = 1
       /\ result.success <=> failure = NoFailure
       /\ ~result.success => result.error \notin {"", NoError}

\* C5 (amended): exactly one PipelineResult per run; success = True only if
\* no stage failed, otherwise success = False and error is the message of the
\* exception that stopped the run, which is non-empty when the pipeline's own
\* code raised it (empty download, embedding, zip, storage).
C5_ResultPerRun ==
  /\ results <= 1
  /\ pc = "done" <=> results = 1
  /\ pc = "done" =>
       /\ result.success <=> failure = NoFailure
       /\ result.success => result.error = NoError
       /\ ~result.success =>
            /\ result.error = failure.msg
            /\ failure.stage \in OwnFailures => result.error \notin {"", NoError}

\* The extraction raised an exception without a message and the run returned
\* success = False with an empty error.
C5_Witness ==
  pc = "done" /\ ~result.success /\ failure.stage = "extract" /\ result.error = ""

(* ------------------------------- C6 ----------------------------------- *)
\* C6: on success total_chunks is the number of chunks emitted and the
\* number of rows written by the run, and page_count is the page count of
\* the extraction; the long document under the pipeline's options gives 3
\* chunks delivered as one batch of 3.
C6_SuccessTotals ==
  Succeeded =>
    /\ result.total_chunks = Len(emitted)
    /\ result.total_chunks = Len(table)
    /\ result.page_count = docPages
    /\ (options = PipelineOptions /\ docTokens = LongDocWords) =>
          result.total_chunks = 3 /\ BatchSizes = <<3>>

\* The long document was processed under the pipeline's own options.
C6_Witness ==
  /\ Succeeded /\ options = PipelineOptions /\ docTokens = LongDocWords
  /\ result = SuccessResult(docPages, 3) /\ Len(table) = 3

(* ------------------------------- C7 ----------------------------------- *)
\* C7: an empty or absent download payload takes the run straight to the
\* failure result (success False, page_count 0, total_chunks 0, the
\* "Download failed" error): no extraction, embedding request or insert.
C7_EmptyDownload ==
  response \in {"empty", "none"} =>
    /\ pc \in {"pipeline_except", "done"}
    /\ extractCalls = 0 /\ embedRequests = <<>> /\ insertCalls = <<>> /\ table = <<>>
    /\ pc = "done" => result = [success |-> FALSE, page_count |-> 0,
                                total_chunks |-> 0, error |-> DownloadFailedMsg]

\* The download returned b"" and the run has ended.
C7_Witness == response = "empty" /\ pc = "done"

(* ------------------------------- C8 ----------------------------------- *)
\* C8 (as claimed): a batch answered with a vector count different from its
\* number of texts fails, and none of its rows is persisted.
C8_MismatchFailsBatch ==
  \A b \in mismatched :
    /\ \A k \in 1..Len(table) : \A c \in 1..Len(batches[b]) :
          table[k].chunk_index # batches[b][c].chunk_index
    /\ completed >= b => HandlerFailed /\ Len(batches) = b

(* ------------------------------- C9 ----------------------------------- *)
\* C9 (as claimed): M > 0 words give ceil(max(M - K, 0) / (N - K)) chunks,
\* and M = 0 gives none.
C9_Original ==
  ChunkingFinished =>
    Len(emitted) = IF docTokens = 0 THEN 0
                   ELSE Ceil(Max(docTokens - options.overlap, 0), Step(options))

\* C9 (amended): M words give ceil(M / (N - K)) chunks (0 when M = 0).
C9_ChunkCount ==
  ChunkingFinished => Len(emitted) = Ceil(docTokens, Step(options))

\* A finished text whose last window starts inside the overlap of the one
\* before it: the loop emits a chunk more than the claimed formula.
C9_Witness ==
  /\ ChunkingFinished /\ options.overlap > 0 /\ Len(emitted) >= 2
  /\ Len(emitted) = 1 + Ceil(Max(docTokens - options.overlap, 0), Step(options))

(* ------------------------------- C10 ---------------------------------- *)
\* C10: the chunks emitted carry chunk_index 0, 1, 2, ... in emission order
\* (across batches as well), and chunk j is the words [j(N-K), j(N-K)+N) of
\* the text, cut at its end, joined by single spaces.
C10_IndexAndContent ==
  /\ chunk_index = Len(emitted)
  /\ \A j \in 1..Len(emitted) :
       LET start == (j - 1) * (options.chunkSize - options.overlap)
           w == WordsOf(emitted[j].content)
       IN /\ emitted[j].chunk_index = j - 1
          /\ start < docTokens
          /\ w = [k \in 1..(Min(start + options.chunkSize, docTokens) - start) |-> start + k]
          /\ Len(emitted[j].content) = 2 * Len(w) - 1

\* More than one batch of overlapping chunks, the last one cut short by the
\* end of the text.
C10_Witness ==
  /\ Succeeded /\ options.overlap > 0 /\ Len(emitted) > BatchSize
  /\ Len(WordsOf(emitted[Len(emitted)].content)) < options.chunkSize

(* ------------------------------- C11 ---------------------------------- *)
\* The first and the last k words of a word sequence (all of it when it has
\* fewer than k words).
FirstWords(w, k) == SubSeq(w, 1, Min(k, Len(w)))
LastWords(w, k) == SubSeq(w, Len(w) - Min(k, Len(w)) + 1, Len(w))
ChunkWords(j) == WordsOf(emitted[j].content)
\* The number of chunks of the whole document (C9).
DocChunks == Ceil(docTokens, Step(options))
Overlapping(j) ==
  LastWords(ChunkWords(j), options.overlap) = FirstWords(ChunkWords(j + 1), options.overlap)

\* C11 (as claimed): the last K words of every emitted chunk are the first K
\* words of the next one, unless that next one is the final chunk.
C11_Original ==
  \A j \in 1..(Len(emitted) - 1) : j + 1 < DocChunks => Overlapping(j)

\* C11 (amended): the last K words of every emitted chunk that is a full
\* window of chunkSize words are the first K words of the next chunk.
C11_Overlap ==
  \A j \in 1..(Len(emitted) - 1) :
    Len(ChunkWords(j)) = options.chunkSize =>
      /\ Overlapping(j)
      /\ Len(FirstWords(ChunkWords(j + 1), options.overlap)) = options.overlap

\* A finished document of several chunks with an overlap of 2 words or more
\* whose first window is full.
C11_Witness ==
  /\ Succeeded /\ options.overlap >= 2 /\ Len(emitted) >= 3
  /\ Len(ChunkWords(1)) = options.chunkSize

(* ------------------------------- C12 ---------------------------------- *)
Misconfigured == Step(options) <= 0

\* C12 (as claimed): with chunkSize - overlap <= 0 and at least one word the
\* operation fails at once with a configuration error: no chunk is
\* constructed and no batch is delivered.
C12_FailsFast ==
  (Misconfigured /\ docTokens > 0) => emitted = <<>> /\ batches = <<>>

(* ------------------------------- C13 ---------------------------------- *)
\* C13 (as claimed): the status is processing while the pipeline runs; when
\* the handler has returned it is processed exactly if the pipeline returned
\* success = True and failed otherwise, never processing; and a failed
\* pipeline gives a success = False response carrying the error.
C13_StatusLifecycle ==
  /\ hpc = "pipeline" => status = "processing"
  /\ hpc = "finished" =>
       /\ status = (IF result.success THEN "processed" ELSE "failed")
       /\ reply.success = result.success
       /\ ~result.success => reply.error = ErrorMsg(result)

(* ------------------------------- C14 ---------------------------------- *)
\* The rows of the shared table that carry run r's document_id.
RowsOf(r) == SelectSeq(table, LAMBDA row : row.document_id = RunIds[r].document_id)

\* What holds of run r, whose variables are rs, whatever the other run does:
\* its rows carry its three identifiers and are its own chunks in order; its
\* counter counts only its rows; and its result follows from its own
\* document and its own failure.
RunIsolated(r, rs) ==
  LET rows == RowsOf(r)
  IN /\ \A k \in 1..Len(rows) :
          /\ rows[k].user_id = RunIds[r].user_id
          /\ rows[k].chat_id = RunIds[r].chat_id
          /\ k <= Len(rs.emitted)
          /\ rows[k].chunk_index = rs.emitted[k].chunk_index
          /\ rows[k].content = rs.emitted[k].content
     /\ rs.total_chunks_processed <= Len(rows)
     /\ rs.pc \in {"loop", "return", "returned"} => rs.total_chunks_processed = Len(rows)
     /\ rs.pc = "done" =>
          /\ rs.result.success <=> rs.failure = NoFailure
          /\ rs.result.success =>
               rs.result = SuccessResult(rs.docPages, Ceil(rs.docTokens, Step(rs.options)))
          /\ rs.result.success => Len(rows) = rs.result.total_chunks
          /\ ~rs.result.success => rs.result = FailureResult(rs.failure.msg)

\* C14: two interleaved runs for different documents share no mutable state:
\* each counts its own chunks, each row carries the identifiers of the run
\* that wrote it, and each result depends on that run alone.
C14_RunsIsolated ==
  /\ RunIsolated(cur, RunState)
  /\ parked # <<>> => RunIsolated(3 - cur, parked)

\* Both runs have ended, one successfully and one by a failure after it had
\* stored a batch, and their rows alternate in the table.
C14_Witness ==
  /\ parked # <<>> /\ pc = "done" /\ parked.pc = "done"
  /\ result.success /\ ~parked.result.success
  /\ Len(RowsOf(cur)) > BatchSize /\ Len(RowsOf(3 - cur)) = BatchSize
  /\ \E k \in 1..Len(table) : \E l \in 1..Len(table) : \E n \in 1..Len(table) :
        /\ k < l /\ l < n
        /\ table[k].document_id = document_id
        /\ table[l].document_id # document_id
        /\ table[n].document_id = document_id

(* ------------------------------- C15 ---------------------------------- *)
\* C15: cleaning a cleaned text changes nothing, and the empty text cleans
\* to the empty text.
C15_CleanIdempotent ==
  /\ hpc = "recleaned" => cleaned_twice = cleaned_text
  /\ (hpc \in {"cleaned", "recleaned"} /\ full_text = <<>>) => cleaned_text = <<>>

\* A text with a blank line holding a tab was cleaned twice.
C15_Witness ==
  /\ hpc = "recleaned"
  /\ full_text = <<"a", "\n", "\t", "\n", "a">>
  /\ cleaned_text = <<"a", "\n", "a">>

(* ------------------------------- C16 ---------------------------------- *)
\* The rows of a bulk insert are those of batch c: one row per chunk, in
\* order, with the chunk's index and content.
RowsCover(rows, c) ==
  /\ Len(rows) = Len(c)
  /\ \A k \in 1..Len(c) :
       /\ rows[k].chunk_index = c[k].chunk_index
       /\ rows[k].content = c[k].content

\* C16: every batch handled has exactly one embedding request, carrying all
\* of the batch's texts in order, and at most one bulk insert, carrying all of
\* the batch's rows; the insert is issued only once the embedding request of
\* the same batch has answered with vectors, and exactly once for a batch
\* that is handled to the end.
C16_OneEmbedThenOneInsert ==
  /\ Len(embedRequests) = Len(batches)
  /\ \A b \in 1..Len(batches) :
       /\ Len(embedRequests[b]) = Len(batches[b])
       /\ \A k \in 1..Len(batches[b]) : embedRequests[b][k] = batches[b][k].content
  /\ Len(insertCalls) <= Len(batches)
  /\ \A b \in 1..Len(insertCalls) : RowsCover(insertCalls[b], batches[b])
  /\ Len(insertCalls) >= Len(batches) - 1
  /\ pc = "embedding" => Len(insertCalls) = Len(batches) - 1
  /\ (pc = "extractor_except" /\ failure.stage \in {"embed", "zip"})
       => Len(insertCalls) = Len(batches) - 1
  /\ pc \in {"storing", "handled"}
       => /\ Len(insertCalls) = Len(batches)
          /\ Len(embeddings) >= Len(batches[Len(batches)]) \/ pc = "handled"

\* Two batches were handled, the first of them full.
C16_Witness ==
  /\ pc = "handled"
  /\ Len(batches) = 2
  /\ Len(batches[1]) = BatchSize
  /\ Len(insertCalls) = 2

(* ------------------------------- C17 ---------------------------------- *)
\* C17: with 0 <= overlap < chunkSize and collaborators that always answer,
\* every run ends with its one PipelineResult returned (success or failure),
\* and the cursor of the chunking loop moves strictly forward in every
\* iteration.
C17_Terminates ==
  /\ <>(pc = "done" /\ result # NoResult /\ results = 1)
  /\ [][i' # i => i' > i]_vars
  /\ [][(pc = "loop" /\ pc' = "loop" /\ chunk_index' # chunk_index) => i' > i]_vars
  /\ [][(pc = "handled" /\ ret = "loop") => i' > i]_vars

\* A run over overlapping windows ended after several iterations.
C17_Witness ==
  /\ pc = "done"
  /\ result.success
  /\ options.overlap > 0
  /\ chunk_index >= 3
  /\ i > 0

(* ------------------------------- C18 ---------------------------------- *)
\* The states of the chunking loop, a batch being embedded or stored included.
Chunking == pc \in {"loop", "on_batch_ready", "embedding", "storing", "handled"}

\* C18: throughout the chunking loop no name of the extractor or of the
\* orchestrator is still bound to the raw document bytes.
C18_BytesReleased ==
  Chunking => /\ extractor_buffer # "pdf"
              /\ buffer # "pdf"
              /\ response # "pdf"

(* ------------------------------- C19 ---------------------------------- *)
\* C19: the chunk buffer and the handler's texts, embeddings and rows never
\* hold more than BatchSize entries, and when the loop builds the first chunk
\* after a handled batch all four are empty.
C19_BoundedBuffers ==
  /\ Len(chunks) <= BatchSize
  /\ Len(texts) <= BatchSize
  /\ Len(embeddings) <= BatchSize
  /\ Len(vector_chunks) <= BatchSize
  /\ pc = "loop" => /\ texts = <<>> /\ embeddings = <<>> /\ vector_chunks = <<>>
                    /\ Len(chunks) = Len(emitted) - Len(Flatten(batches))

(* ------------------------------- C20 ---------------------------------- *)
\* Row k of the table belongs to the batch and the position given by the
\* batch size: every batch before the last is full.
BatchOfRow(k) == ((k - 1) \div BatchSize) + 1
PositionOfRow(k) == ((k - 1) % BatchSize) + 1

\* C20: every row written carries the run's three identifiers, page number
\* 0, the index and content of its own chunk, and the vector that the
\* provider returned at the chunk's position in the response for the chunk's
\* batch.
C20_RowsCarryOwnData ==
  /\ Len(table) <= Len(emitted)
  /\ \A k \in 1..Len(table) :
       /\ table[k].document_id = RunIds[cur].document_id
       /\ table[k].user_id = RunIds[cur].user_id
       /\ table[k].chat_id = RunIds[cur].chat_id
       /\ table[k].page_number = 0
       /\ table[k].chunk_index = emitted[k].chunk_index
       /\ table[k].chunk_index = k - 1
       /\ table[k].content = emitted[k].content
       /\ table[k].embedding = Vector(BatchOfRow(k), PositionOfRow(k))

\* Rows of two batches were written, the second after a response that
\* carried one vector too many.
C20_Witness ==
  /\ Len(table) > BatchSize
  /\ 2 \in mismatched
  /\ table[Len(table)].embedding = Vector(2, Len(table) - BatchSize)

(* ------------------------------- C21 ---------------------------------- *)
\* The rows of the batches before the last one delivered.
RowsBeforeLastBatch == Len(Flatten(SubSeq(batches, 1, Len(batches) - 1)))

\* C21: when the embedding request of a batch fails, nothing of the batch is
\* accepted (no embeddings, no rows built, no insert issued, no row written)
\* and the PipelineResult carries "Batch embedding failed", never what the
\* provider said; a failed insert yields "Failed to store vectors" and writes
\* no row of its batch.
C21_NormalizedErrors ==
  /\ failure.stage = "embed"
       => /\ embeddings = <<>> /\ vector_chunks = <<>>
          /\ Len(insertCalls) = Len(batches) - 1
          /\ Len(table) = RowsBeforeLastBatch
          /\ exc = "Batch embedding failed"
  /\ failure.stage = "store"
       => /\ Len(table) = RowsBeforeLastBatch
          /\ exc = "Failed to store vectors"
  /\ (pc = "done" /\ failure.stage = "embed")
       => /\ ~result.success
          /\ result.error = "Batch embedding failed"
          /\ result.error \notin EmbedRawErrors
  /\ (pc = "done" /\ failure.stage = "store")
       => /\ ~result.success
          /\ result.error = "Failed to store vectors"

\* The run ended after the embedding request of its second batch failed.
C21_Witness ==
  /\ pc = "done"
  /\ failure.stage = "embed"
  /\ Len(batches) = 2
  /\ Len(table) = BatchSize

(* ------------------------------- C22 ---------------------------------- *)
\* C22: no rollback.  Once a run has failed while handling batch k, its rows
\* are exactly the chunks of batches 1..k-1, all full: chunk indexes
\* 0..BatchSize*(k-1)-1 in order; rows written are never removed; and the
\* PipelineResult returned reports total_chunks 0 and page_count 0.
C22_NoRollback ==
  /\ [](HandlerFailed =>
          /\ Len(table) = BatchSize * (Len(batches) - 1)
          /\ RowsCover(table, Flatten(SubSeq(batches, 1, Len(batches) - 1)))
          /\ \A k \in 1..Len(table) : table[k].chunk_index = k - 1
          /\ pc = "done" => /\ ~result.success
                            /\ result.total_chunks = 0
                            /\ result.page_count = 0)
  /\ [][/\ Len(table') >= Len(table)
        /\ SubSeq(table', 1, Len(table)) = table]_vars

\* The insert of the second batch failed; the run ended with the rows of the
\* first batch in the table and a result that reports no chunks.
C22_Witness ==
  /\ pc = "done"
  /\ failure.stage = "store"
  /\ Len(batches) = 2
  /\ Len(table) = BatchSize
  /\ result.total_chunks = 0
  /\ total_chunks_processed = BatchSize

(* ------------------------------- C23 ---------------------------------- *)
\* Neither a chunk is being built into a batch's request nor a request is
\* outstanding: the run is between two batches or after the last.
AtBatchBoundary == pc \in {"loop", "handled", "return", "returned", "done"}

\* C23: total_chunks_processed never exceeds the number of rows the run has
\* written and equals it at every batch boundary; it never decreases, and it
\* grows only when the insert of the batch has succeeded, by the size of that
\* batch.
C23_CounterFollowsStorage ==
  /\ [](total_chunks_processed <= Len(table))
  /\ [](AtBatchBoundary => total_chunks_processed = Len(table))
  /\ [][total_chunks_processed' >= total_chunks_processed]_vars
  /\ [][total_chunks_processed' # total_chunks_processed
          => /\ pc = "storing"
             /\ table' = table \o vector_chunks
             /\ total_chunks_processed' = total_chunks_processed + Len(chunks)
             /\ total_chunks_processed' = Len(table')]_vars

\* One full batch is stored and counted, and the tail batch, smaller than a
\* full one, has been stored and counted as well.
C23_Witness ==
  /\ pc = "handled"
  /\ ret = "tail"
  /\ Len(batches) = 2
  /\ Len(chunks) < BatchSize
  /\ total_chunks_processed = BatchSize + Len(chunks)
  /\ Len(table) = total_chunks_processed
====
